---- MODULE Spec2Model ----
(***************************************************************************)
(* Model of the license session of PolarionLicenseManager                  *)
(* (src/polarion_license_manager.py): the user directory, the list of      *)
(* license entries, the change log, and the operations that mutate them    *)
(* (add_user_license, remove_user_license, switch_user_license), the       *)
(* "apply changes" step of the interactive menu, the parser and the        *)
(* serializer of the configuration text, the read-only queries, the        *)
(* resolution of mixed identifier inputs and the options 2 and 9 of the    *)
(* menu.                                                                   *)
(*                                                                         *)
(* Text is modelled as a sequence of tokens (strings): the f-string        *)
(* f"{a}{b}" is the sequence <<a, b>>.  None is the empty sequence.         *)
(* A LicenseEntry object is identified by its position in license_entries  *)
(* (entries are never deleted from the list by the modelled operations).   *)
(***************************************************************************)
EXTENDS Integers, Sequences, FiniteSets, TLC

VARIABLES
    users,            \* self.users, in insertion order: a sequence of User
    license_entries,  \* self.license_entries
    changes,          \* self.changes
    license_config_text, \* self.license_config_text, as a sequence of lines
    parsed_entries,   \* history: license_entries as parse_license_configuration left it
    returned,         \* history: the last read-only call and the value it returned
    last_call         \* history: the operation that made the last step, its return
                      \* value, the number of change records it appended and the
                      \* output files it wrote

vars == <<users, license_entries, changes, license_config_text, parsed_entries,
          returned, last_call>>

----------------------------------------------------------------------------
(* Bounds of the model *)

MaxInitEntries == 2   \* assignment lines in the parsed configuration
MaxEntries == 3       \* add is not called once the entry list is this long
MaxChanges == 2       \* no mutation is called once the change log is this long
MaxLines == 3         \* lines of a configuration text with sections
MaxTextChanges == 1   \* mutations of a session on a configuration text with sections
MaxIdentifiers == 2   \* identifiers of a query, fields of a mixed identifier input

----------------------------------------------------------------------------
(* Values *)

license_categories == {"ALM", "QA", "Requirements", "Pro", "Reviewer"}

assignment_types == {"Named", "Concurrent"}

\* the user ids the callers of the operations pass
UserIds == {"bob", "amy"}

\* the assignment lines of the parsed configuration: line i of the text is
\* named<Category>User<i>=<user id>, with the category and the user id drawn from
ParsedCategories == {"ALM", "QA"}

ParsedUserIds == {"Bob", "amy"}

\* str.lower() on the strings of the model
Lower(s) ==
    CASE s = "Bob" -> "bob"
      [] s = "Named" -> "named"
      [] s = "Concurrent" -> "concurrent"
      [] s = "Bob Shrager" -> "bob shrager"
      [] s = "Amy Segal" -> "amy segal"
      [] OTHER -> s

None == <<>>

FullNameOf(key) == IF key = "bob" THEN "Bob Shrager" ELSE "Amy Segal"

EmailOf(key) == IF key = "bob" THEN "bob.shrager@co.com" ELSE "amy.segal@co.com"

\* User(user_id, full_name, email)
User(id, name, email) == [user_id |-> id, full_name |-> name, email |-> email]

\* the User objects a caller passes to the operations
UserPool == {User(id, FullNameOf(Lower(id)), EmailOf(Lower(id))) : id \in UserIds}

PoolUser(id) == CHOOSE u \in UserPool : u.user_id = id

\* LicenseEntry(license_type, assignment_type, index, user_id, line_number, is_active)
LicenseEntry(lt, at, idx, uid, ln, act) ==
    [license_type |-> lt, assignment_type |-> at, index |-> idx,
     user_id |-> uid, line_number |-> ln, is_active |-> act]

\* LicenseChange(user_id, user_name, action, old_license, new_license, line_added, line_removed)
LicenseChange(uid, name, action, old, new, added, removed) ==
    [user_id |-> uid, user_name |-> name, action |-> action,
     old_license |-> old, new_license |-> new,
     line_added |-> added, line_removed |-> removed]

\* f"{assignment_type} {license_type}"
LicenseLabel(at, lt) == <<at, " ", lt>>

\* f"{assignment_type.lower()}{license_type}User{index}={user_id}"
AssignmentLine(at, lt, idx, uid) == <<Lower(at), lt, "User", ToString(idx), "=", uid>>

----------------------------------------------------------------------------
(* The directory: self.users, keyed by user_id.lower() *)

UserKeys(us) == {Lower(us[i].user_id) : i \in 1..Len(us)}

\* self.users.get(key, default)
UsersGet(us, key, default) ==
    IF key \in UserKeys(us)
    THEN us[CHOOSE i \in 1..Len(us) : Lower(us[i].user_id) = key]
    ELSE default

\* the directories fetch_active_users / load_users_from_file can load
\* (none, or amy and Bob: the key of Bob is "bob")
Directories ==
    { <<>>,
      <<User("amy", FullNameOf("amy"), EmailOf("amy")),
        User("Bob", FullNameOf("bob"), EmailOf("bob"))>> }

----------------------------------------------------------------------------
(* build_combined_user_license_table: a dict in insertion order, modelled  *)
(* as a sequence of [key, entries]; entries are positions of the entry list *)

\* the first element of a sequence, as a sequence of one element, or of none
FirstOf(seq) == IF seq = <<>> THEN <<>> ELSE <<Head(seq)>>

HasKey(tbl, k) == \E j \in 1..Len(tbl) : tbl[j].key = k

\* a get that returns the first entry of the list only
TableGet_first_entry(tbl, k) ==
    IF HasKey(tbl, k)
    THEN FirstOf(tbl[CHOOSE j \in 1..Len(tbl) : tbl[j].key = k].entries)
    ELSE <<>>

\* user_licenses.get(k, [])
TableGet(tbl, k) ==
    IF HasKey(tbl, k)
    THEN tbl[CHOOSE j \in 1..Len(tbl) : tbl[j].key = k].entries
    ELSE <<>>

\* user_licenses[k] = v
TableSet(tbl, k, v) ==
    IF HasKey(tbl, k)
    THEN [j \in 1..Len(tbl) |-> IF tbl[j].key = k THEN [key |-> k, entries |-> v] ELSE tbl[j]]
    ELSE Append(tbl, [key |-> k, entries |-> v])

\* a table that lists the inactive entries as well
RECURSIVE TableFold_with_inactive(_, _, _)
TableFold_with_inactive(tbl, es, i) ==
    IF i > Len(es) THEN tbl
    ELSE LET user_id_lower == Lower(es[i].user_id) IN
         IF HasKey(tbl, user_id_lower)
         THEN TableFold_with_inactive(
                  TableSet(tbl, user_id_lower, Append(TableGet(tbl, user_id_lower), i)),
                  es, i + 1)
         ELSE TableFold_with_inactive(TableSet(tbl, es[i].user_id, <<i>>), es, i + 1)

RECURSIVE TableFold(_, _, _)
TableFold(tbl, es, i) ==
    IF i > Len(es) THEN tbl
    ELSE IF ~es[i].is_active THEN TableFold(tbl, es, i + 1)
    ELSE LET user_id_lower == Lower(es[i].user_id) IN
         IF HasKey(tbl, user_id_lower)
         THEN TableFold(TableSet(tbl, user_id_lower,
                                 Append(TableGet(tbl, user_id_lower), i)), es, i + 1)
         ELSE TableFold(TableSet(tbl, es[i].user_id, <<i>>), es, i + 1)

build_combined_user_license_table(us, es) ==
    TableFold([i \in 1..Len(us) |-> [key |-> Lower(us[i].user_id), entries |-> <<>>]],
              es, 1)

----------------------------------------------------------------------------
(* find_inactive_users_with_licenses and validate_changes *)

\* a find_inactive_users_with_licenses that looks the user id up as it is written
find_inactive_users_with_licenses_case_sensitive(us, es) ==
    SelectSeq([i \in 1..Len(es) |-> i],
              LAMBDA i : es[i].is_active /\ es[i].user_id \notin UserKeys(us))

\* positions of the active entries whose user is not in the directory
find_inactive_users_with_licenses(us, es) ==
    SelectSeq([i \in 1..Len(es) |-> i],
              LAMBDA i : es[i].is_active /\ Lower(es[i].user_id) \notin UserKeys(us))

RECURSIVE DuplicateErrors(_, _, _)
DuplicateErrors(tbl, es, j) ==
    IF j > Len(tbl) THEN <<>>
    ELSE LET active_entries == SelectSeq(tbl[j].entries, LAMBDA i : es[i].is_active)
             rest == DuplicateErrors(tbl, es, j + 1)
         IN IF Len(active_entries) > 1
            THEN <<[kind |-> "multiple active licenses", user_id |-> tbl[j].key]>> \o rest
            ELSE rest

validate_changes(us, es) ==
    DuplicateErrors(build_combined_user_license_table(us, es), es, 1)
    \o [n \in 1..Len(find_inactive_users_with_licenses(us, es)) |->
          [kind |-> "non-existent user",
           user_id |-> es[find_inactive_users_with_licenses(us, es)[n]].user_id]]

----------------------------------------------------------------------------
(* find_available_slot *)

SetMax(S) == CHOOSE x \in S : \A y \in S : y <= x

\* a find_available_slot that numbers by the count of active entries of the partition
find_available_slot_by_count(es, license_type, assignment_type) ==
    Cardinality({j \in 1..Len(es) :
                    /\ es[j].license_type = license_type
                    /\ es[j].assignment_type = assignment_type
                    /\ es[j].is_active}) + 1

\* a find_available_slot that takes the index after the lowest active one
find_available_slot_after_lowest(es, license_type, assignment_type) ==
    LET existing_indices ==
            {es[i].index : i \in {j \in 1..Len(es) :
                                    /\ es[j].license_type = license_type
                                    /\ es[j].assignment_type = assignment_type
                                    /\ es[j].is_active}}
    IN IF existing_indices = {} THEN 1
       ELSE (CHOOSE n \in existing_indices : \A k \in existing_indices : n <= k) + 1

\* a find_available_slot that also counts the inactive entries of the partition
find_available_slot_counting_inactive(es, license_type, assignment_type) ==
    LET existing_indices ==
            {es[i].index : i \in {j \in 1..Len(es) :
                                    /\ es[j].license_type = license_type
                                    /\ es[j].assignment_type = assignment_type}}
    IN IF existing_indices = {} THEN 1 ELSE SetMax(existing_indices) + 1

find_available_slot(es, license_type, assignment_type) ==
    LET existing_indices ==
            {es[i].index : i \in {j \in 1..Len(es) :
                                    /\ es[j].license_type = license_type
                                    /\ es[j].assignment_type = assignment_type
                                    /\ es[j].is_active}}
    IN IF existing_indices = {} THEN 1 ELSE SetMax(existing_indices) + 1

----------------------------------------------------------------------------
(* The mutations, as functions of the session state: each returns the      *)
(* method's return value and the entry list and change log it leaves       *)

Result(ok, es, ch) == [ok |-> ok, license_entries |-> es, changes |-> ch]

add_user_license(us, es, ch, user, license_type, assignment_type) ==
    LET user_licenses == build_combined_user_license_table(us, es)
        existing_licenses == TableGet(user_licenses, Lower(user.user_id))
        new_index == find_available_slot(es, license_type, assignment_type)
        new_entry == LicenseEntry(license_type, assignment_type, new_index,
                                  user.user_id, 0, TRUE)
        change == LicenseChange(user.user_id, user.full_name, "add",
                                None, LicenseLabel(assignment_type, license_type),
                                AssignmentLine(assignment_type, license_type,
                                               new_index, user.user_id),
                                None)
    IN IF existing_licenses # <<>>
       THEN Result(FALSE, es, ch)
       ELSE Result(TRUE, Append(es, new_entry), Append(ch, change))

\* a remove_user_license that deletes the entry from the list
remove_user_license_deleting(us, es, ch, user_id, license_type, assignment_type) ==
    LET matching == {i \in 1..Len(es) :
                        /\ Lower(es[i].user_id) = Lower(user_id)
                        /\ es[i].license_type = license_type
                        /\ es[i].assignment_type = assignment_type
                        /\ es[i].is_active}
        entry_to_remove == CHOOSE i \in matching : \A j \in matching : i <= j
        user_name == UsersGet(us, Lower(user_id), User(user_id, user_id, "")).full_name
        change == LicenseChange(user_id, user_name, "remove",
                                LicenseLabel(assignment_type, license_type), None,
                                None,
                                AssignmentLine(assignment_type, license_type,
                                               es[entry_to_remove].index, user_id))
    IN IF matching = {}
       THEN Result(FALSE, es, ch)
       ELSE Result(TRUE,
                   SubSeq(es, 1, entry_to_remove - 1)
                       \o SubSeq(es, entry_to_remove + 1, Len(es)),
                   Append(ch, change))

\* a remove_user_license that deactivates the last matching entry, not the first
remove_user_license_last_match(us, es, ch, user_id, license_type, assignment_type) ==
    LET matching == {i \in 1..Len(es) :
                        /\ Lower(es[i].user_id) = Lower(user_id)
                        /\ es[i].license_type = license_type
                        /\ es[i].assignment_type = assignment_type
                        /\ es[i].is_active}
        entry_to_remove == CHOOSE i \in matching : \A j \in matching : j <= i
        user_name == UsersGet(us, Lower(user_id), User(user_id, user_id, "")).full_name
        change == LicenseChange(user_id, user_name, "remove",
                                LicenseLabel(assignment_type, license_type), None,
                                None,
                                AssignmentLine(assignment_type, license_type,
                                               es[entry_to_remove].index, user_id))
    IN IF matching = {}
       THEN Result(FALSE, es, ch)
       ELSE Result(TRUE,
                   [es EXCEPT ![entry_to_remove].is_active = FALSE],
                   Append(ch, change))

remove_user_license(us, es, ch, user_id, license_type, assignment_type) ==
    LET matching == {i \in 1..Len(es) :
                        /\ Lower(es[i].user_id) = Lower(user_id)
                        /\ es[i].license_type = license_type
                        /\ es[i].assignment_type = assignment_type
                        /\ es[i].is_active}
        entry_to_remove == CHOOSE i \in matching : \A j \in matching : i <= j
        user_name == UsersGet(us, Lower(user_id), User(user_id, user_id, "")).full_name
        change == LicenseChange(user_id, user_name, "remove",
                                LicenseLabel(assignment_type, license_type), None,
                                None,
                                AssignmentLine(assignment_type, license_type,
                                               es[entry_to_remove].index, user_id))
    IN IF matching = {}
       THEN Result(FALSE, es, ch)
       ELSE Result(TRUE,
                   [es EXCEPT ![entry_to_remove].is_active = FALSE],
                   Append(ch, change))

\* a switch_user_license that adds the new license before it removes the old one
switch_user_license_add_first(us, es, ch, user, old_type, old_assignment, new_type, new_assignment) ==
    LET added == add_user_license(us, es, ch, user, new_type, new_assignment)
        removed == remove_user_license(us, added.license_entries, added.changes,
                                       user.user_id, old_type, old_assignment)
        n == Len(removed.changes)
    IN IF ~added.ok THEN Result(FALSE, added.license_entries, added.changes)
       ELSE IF ~removed.ok THEN Result(FALSE, removed.license_entries, removed.changes)
       ELSE Result(TRUE, removed.license_entries,
                   [removed.changes EXCEPT ![n - 1].action = "switch",
                                           ![n].action = "switch"])

\* a switch_user_license that undoes the removal when the add fails
switch_user_license_rolling_back(us, es, ch, user, old_type, old_assignment, new_type, new_assignment) ==
    LET removed == remove_user_license(us, es, ch, user.user_id, old_type, old_assignment)
        added == add_user_license(us, removed.license_entries, removed.changes, user,
                                  new_type, new_assignment)
        n == Len(added.changes)
    IN IF ~removed.ok \/ ~added.ok THEN Result(FALSE, es, ch)
       ELSE Result(TRUE, added.license_entries,
                   [added.changes EXCEPT ![n - 1].action = "switch",
                                         ![n].action = "switch"])

switch_user_license(us, es, ch, user, old_type, old_assignment, new_type, new_assignment) ==
    LET removed == remove_user_license(us, es, ch, user.user_id, old_type, old_assignment)
        added == add_user_license(us, removed.license_entries, removed.changes, user,
                                  new_type, new_assignment)
        n == Len(added.changes)
    IN IF ~removed.ok THEN Result(FALSE, removed.license_entries, removed.changes)
       ELSE IF ~added.ok THEN Result(FALSE, added.license_entries, added.changes)
       ELSE Result(TRUE, added.license_entries,
                   [added.changes EXCEPT ![n - 1].action = "switch",
                                         ![n].action = "switch"])

----------------------------------------------------------------------------
(* The configuration text: a sequence of lines (str.split('\n') and        *)
(* '\n'.join are the two directions of this), a line a sequence of tokens. *)
(* The lines of the model carry no leading or trailing blanks, so          *)
(* str.strip() on a whole line leaves it as it is.                         *)

\* the dict self.license_categories in its insertion order
CategoryOrder == <<"ALM", "QA", "Requirements", "Pro", "Reviewer">>

SectionMarker == "# ------------------------------- POLARION "

SectionHeader(category) == <<SectionMarker, category, " -------------------------------">>

\* str.upper() on the assignment types
Upper(s) ==
    CASE s = "Named" -> "NAMED"
      [] s = "Concurrent" -> "CONCURRENT"
      [] OTHER -> s

SubsectionHeader(assignment_type) == <<"# ", Upper(assignment_type), " USERS:">>

\* f"# {...}={entry.user_id} (removed)" read back: the user id with the annotation
Removed(user_id) ==
    CASE user_id = "amy" -> "amy (removed)"
      [] user_id = "Bob" -> "Bob (removed)"
      [] user_id = "bob" -> "bob (removed)"
      [] OTHER -> user_id

\* the tokens \w+ matches
IsWord(t) == t \notin {"#", "# ", " ", "=", " (removed)", SectionMarker}

DigitStrings == {ToString(n) : n \in 0..9}

\* int(index_str)
IntOf(index_str) == CHOOSE n \in 0..9 : ToString(n) = index_str

\* sub in line, for a sub of consecutive tokens
Contains(line, sub) ==
    \E k \in 0..(Len(line) - Len(sub)) : \A j \in 1..Len(sub) : line[k + j] = sub[j]

\* line.startswith('#')
StartsWithHash(line) == line # <<>> /\ Head(line) \in {"#", "# ", SectionMarker}

\* line.startswith('# ------------------------------- POLARION'),
\* line.startswith('# -------------------------------')
StartsWithSectionMarker(line) == line # <<>> /\ Head(line) = SectionMarker

\* line.startswith('# NAMED USERS:') / line.startswith('# CONCURRENT USERS:')
StartsWithSubsectionHeader(line, assignment_type) ==
    Len(line) >= 3 /\ SubSeq(line, 1, 3) = SubsectionHeader(assignment_type)

\* re.match(r'(\w+User)(\d+)=(.+)', line): the prefix is tokens 1 and 2 and 'User'
AssignmentMatch(line) ==
    /\ Len(line) >= 6
    /\ IsWord(line[1]) /\ IsWord(line[2]) /\ line[3] = "User"
    /\ line[1] # "" \/ line[2] # ""
    /\ line[4] \in DigitStrings
    /\ line[5] = "="

\* line[1:].strip() on a line that starts with '#'
Uncomment(line) == Tail(line)

\* line_stripped.lstrip('#'): the blank after the '#' stays
LStripHash(line) ==
    IF line # <<>> /\ Head(line) = "#" THEN Tail(line)
    ELSE IF line # <<>> /\ Head(line) = "# " THEN <<" ">> \o Tail(line)
    ELSE line

\* None where the code holds a category or an assignment type, or an entry
NoName == ""

\* the first category of self.license_categories that occurs in the line
RECURSIVE FirstCategoryIn(_, _)
FirstCategoryIn(line, k) ==
    IF k > Len(CategoryOrder) THEN NoName
    ELSE IF \E i \in 1..Len(line) : line[i] = CategoryOrder[k] THEN CategoryOrder[k]
    ELSE FirstCategoryIn(line, k + 1)

\* the first category whose lower() equals that of the token
RECURSIVE CategoryNamed(_, _)
CategoryNamed(token, k) ==
    IF k > Len(CategoryOrder) THEN NoName
    ELSE IF Lower(CategoryOrder[k]) = Lower(token) THEN CategoryOrder[k]
    ELSE CategoryNamed(token, k + 1)

\* the first category whose lower() occurs in prefix.lower(): the prefix is tokens
\* 1 and 2 and 'User'
RECURSIVE PrefixCategory(_, _)
PrefixCategory(line, k) ==
    IF k > Len(CategoryOrder) THEN NoName
    ELSE IF Lower(CategoryOrder[k]) \in {Lower(line[1]), Lower(line[2])}
    THEN CategoryOrder[k]
    ELSE PrefixCategory(line, k + 1)

\* prefix.lower().startswith('concurrent') or prefix.lower().startswith('named')
NamesMode(line) == Lower(line[1]) \in {"concurrent", "named"}

\* the local category_part after a matched line: lines 515 and 519 assign it
\* only when the prefix names a mode, and it outlives the iteration of the loop
CategoryPartAfter(line, category_part) ==
    IF NamesMode(line) THEN line[2] ELSE category_part

\* a parser that takes the category and the assignment type of the enclosing
\* headers when there are any, and those of the prefix otherwise
EntryOfLine_preferring_context(line, line_num, is_active, current_category, current_assignment_type, category_part) ==
    LET rest == SubSeq(line, 6, Len(line))
        user_id == IF Len(rest) = 1 THEN rest[1] ELSE Removed(rest[1])
        index == IntOf(line[4])
        from_prefix == CategoryNamed(line[2], 1)
        assignment_type == IF current_assignment_type # NoName THEN current_assignment_type
                           ELSE IF Lower(line[1]) = "named" THEN "Named"
                           ELSE "Concurrent"
        license_category == IF current_category # NoName THEN current_category
                            ELSE from_prefix
    IN IF license_category = NoName THEN <<>>
       ELSE <<LicenseEntry(license_category, assignment_type, index, user_id,
                           line_num, is_active)>>

\* lines 506-556: the entry of a line the pattern matched, as a sequence of one
\* entry, or of none when the category stays undetermined. category_part is
\* the value the local of that name holds when the line is reached ("" when
\* no line has assigned it yet, which matches no category either)
EntryOfLine(line, line_num, is_active, current_category, current_assignment_type, category_part) ==
    LET rest == SubSeq(line, 6, Len(line))
        user_id == IF Len(rest) = 1 THEN rest[1] ELSE Removed(rest[1])
        index == IntOf(line[4])
        \* lines 512-528: a prefix that names no mode is 'Concurrent'
        assignment_type == IF Lower(line[1]) = "concurrent" THEN "Concurrent"
                           ELSE IF Lower(line[1]) = "named" THEN "Named"
                           ELSE "Concurrent"
        \* lines 522-525: only for a prefix that names no mode
        inferred == IF NamesMode(line) THEN NoName ELSE PrefixCategory(line, 1)
        \* lines 531-538: 'category_part' in locals()
        from_part == IF inferred # NoName THEN inferred
                     ELSE CategoryNamed(CategoryPartAfter(line, category_part), 1)
        \* lines 541-545
        from_prefix == IF from_part # NoName THEN from_part ELSE PrefixCategory(line, 1)
        \* lines 548-549
        license_category == IF from_prefix # NoName THEN from_prefix ELSE current_category
    IN IF license_category = NoName THEN <<>>
       ELSE <<LicenseEntry(license_category, assignment_type, index, user_id,
                           line_num, is_active)>>

RECURSIVE ParseFold(_, _, _, _, _, _)
ParseFold(lines, line_num, current_category, current_assignment_type, category_part, entries) ==
    IF line_num > Len(lines) THEN entries
    ELSE LET line == lines[line_num]
             is_active == ~StartsWithHash(line)
             body == IF is_active THEN line ELSE Uncomment(line)
             entry == EntryOfLine(body, line_num, is_active, current_category,
                                  current_assignment_type, category_part)
         IN IF line = <<>>
            THEN ParseFold(lines, line_num + 1, current_category,
                           current_assignment_type, category_part, entries)
            ELSE IF StartsWithSectionMarker(line)
            THEN ParseFold(lines, line_num + 1,
                           IF FirstCategoryIn(line, 1) # NoName
                           THEN FirstCategoryIn(line, 1) ELSE current_category,
                           current_assignment_type, category_part, entries)
            ELSE IF StartsWithSubsectionHeader(line, "Named")
            THEN ParseFold(lines, line_num + 1, current_category, "Named",
                           category_part, entries)
            ELSE IF StartsWithSubsectionHeader(line, "Concurrent")
            THEN ParseFold(lines, line_num + 1, current_category, "Concurrent",
                           category_part, entries)
            ELSE IF Contains(line, <<"=">>) /\ AssignmentMatch(body)
            THEN ParseFold(lines, line_num + 1, current_category,
                           current_assignment_type,
                           CategoryPartAfter(body, category_part), entries \o entry)
            ELSE ParseFold(lines, line_num + 1, current_category,
                           current_assignment_type, category_part, entries)

\* the entry list parse_license_configuration leaves
parse_license_configuration(config_text) ==
    ParseFold(config_text, 1, NoName, NoName, NoName, <<>>)

----------------------------------------------------------------------------
(* update_license_config_text *)

\* the order of str on the category and assignment type names
StrRank(s) ==
    CASE s = "ALM" -> 1 [] s = "Pro" -> 2 [] s = "QA" -> 3
      [] s = "Requirements" -> 4 [] s = "Reviewer" -> 5
      [] s = "Concurrent" -> 1 [] s = "Named" -> 2

\* key=lambda x: (x.license_type, x.assignment_type, x.index), a < b
KeyLess(a, b) ==
    \/ StrRank(a.license_type) < StrRank(b.license_type)
    \/ /\ a.license_type = b.license_type
       /\ \/ StrRank(a.assignment_type) < StrRank(b.assignment_type)
          \/ a.assignment_type = b.assignment_type /\ a.index < b.index

\* sorted(): stable, so an entry goes behind the entries that are not greater
RECURSIVE SortedEntries(_)
SortedEntries(es) ==
    IF es = <<>> THEN <<>>
    ELSE LET front == SortedEntries(SubSeq(es, 1, Len(es) - 1))
             e == es[Len(es)]
             n == Cardinality({i \in 1..Len(front) : ~KeyLess(e, front[i])})
         IN SubSeq(front, 1, n) \o <<e>> \o SubSeq(front, n + 1, Len(front))

\* the keys of grouped_entries in insertion order
RECURSIVE GroupKeys(_)
GroupKeys(sorted_entries) ==
    IF sorted_entries = <<>> THEN <<>>
    ELSE LET front == GroupKeys(SubSeq(sorted_entries, 1, Len(sorted_entries) - 1))
             e == sorted_entries[Len(sorted_entries)]
             key == <<e.license_type, e.assignment_type>>
         IN IF \E i \in 1..Len(front) : front[i] = key THEN front ELSE Append(front, key)

\* a copy that, between the headers, skips every line with a '=' in it
RECURSIVE CopyLines_skipping_every_equals(_, _, _, _)
CopyLines_skipping_every_equals(lines, i, current_category, current_assignment_type) ==
    IF i > Len(lines) THEN <<>>
    ELSE LET line == lines[i] IN
         IF StartsWithSectionMarker(line)
         THEN <<line>> \o CopyLines_skipping_every_equals(lines, i + 1,
                                    IF FirstCategoryIn(line, 1) # NoName
                                    THEN FirstCategoryIn(line, 1) ELSE current_category,
                                    current_assignment_type)
         ELSE IF StartsWithSubsectionHeader(line, "Named")
         THEN <<line>> \o CopyLines_skipping_every_equals(lines, i + 1,
                                                          current_category, "Named")
         ELSE IF StartsWithSubsectionHeader(line, "Concurrent")
         THEN <<line>> \o CopyLines_skipping_every_equals(lines, i + 1,
                                                          current_category, "Concurrent")
         ELSE IF /\ current_category # NoName /\ current_assignment_type # NoName
                 /\ Contains(line, <<"=">>)
         THEN CopyLines_skipping_every_equals(lines, i + 1, current_category,
                                              current_assignment_type)
         ELSE <<line>> \o CopyLines_skipping_every_equals(lines, i + 1, current_category,
                                                          current_assignment_type)

\* lines 876-908: the lines that are copied
RECURSIVE CopyLines(_, _, _, _)
CopyLines(lines, i, current_category, current_assignment_type) ==
    IF i > Len(lines) THEN <<>>
    ELSE LET line == lines[i] IN
         IF StartsWithSectionMarker(line)
         THEN <<line>> \o CopyLines(lines, i + 1,
                                    IF FirstCategoryIn(line, 1) # NoName
                                    THEN FirstCategoryIn(line, 1) ELSE current_category,
                                    current_assignment_type)
         ELSE IF StartsWithSubsectionHeader(line, "Named")
         THEN <<line>> \o CopyLines(lines, i + 1, current_category, "Named")
         ELSE IF StartsWithSubsectionHeader(line, "Concurrent")
         THEN <<line>> \o CopyLines(lines, i + 1, current_category, "Concurrent")
         ELSE IF /\ current_category # NoName /\ current_assignment_type # NoName
                 /\ Contains(line, <<"=">>) /\ AssignmentMatch(LStripHash(line))
         THEN CopyLines(lines, i + 1, current_category, current_assignment_type)
         ELSE <<line>> \o CopyLines(lines, i + 1, current_category, current_assignment_type)

\* lines 916-921: section_start, counted from 1, 0 for "not found"
RECURSIVE FindSection(_, _, _, _)
FindSection(new_lines, category, i, section_start) ==
    IF i > Len(new_lines) THEN section_start
    ELSE IF Contains(new_lines[i], <<SectionMarker, category>>)
    THEN FindSection(new_lines, category, i + 1, i)
    ELSE IF section_start # 0 /\ StartsWithSectionMarker(new_lines[i])
    THEN section_start
    ELSE FindSection(new_lines, category, i + 1, section_start)

\* lines 925-929: the position of the subheader, 0 for "not found"; the search runs
\* from section_start to the end of the text
FindSubsection(new_lines, assignment_type, section_start) ==
    LET found == {i \in section_start..Len(new_lines) :
                     Contains(new_lines[i], SubsectionHeader(assignment_type))}
    IN IF section_start = 0 \/ found = {} THEN 0
       ELSE CHOOSE i \in found : \A j \in found : i <= j

\* lines 934-937
RenderEntry(entry, category, assignment_type) ==
    IF entry.is_active
    THEN <<Lower(assignment_type), category, "User", ToString(entry.index), "=",
           entry.user_id>>
    ELSE <<"# ", Lower(assignment_type), category, "User", ToString(entry.index), "=",
           entry.user_id, " (removed)">>

\* lines 910-940, for the groups from the k-th on
RECURSIVE InsertGroups(_, _, _, _)
InsertGroups(new_lines, sorted_entries, keys, k) ==
    IF k > Len(keys) THEN new_lines
    ELSE LET category == keys[k][1]
             assignment_type == keys[k][2]
             entries == SelectSeq(sorted_entries,
                                  LAMBDA e : /\ e.license_type = category
                                             /\ e.assignment_type = assignment_type)
             section_start == FindSection(new_lines, category, 1, 0)
             subsection == FindSubsection(new_lines, assignment_type, section_start)
             rendered == [n \in 1..Len(entries) |->
                             RenderEntry(entries[n], category, assignment_type)]
         IN IF subsection = 0
            THEN InsertGroups(new_lines, sorted_entries, keys, k + 1)
            ELSE InsertGroups(SubSeq(new_lines, 1, subsection) \o rendered
                                  \o SubSeq(new_lines, subsection + 1, Len(new_lines)),
                              sorted_entries, keys, k + 1)

update_license_config_text(config_text, es) ==
    InsertGroups(CopyLines(config_text, 1, NoName, NoName), SortedEntries(es),
                 GroupKeys(SortedEntries(es)), 1)

----------------------------------------------------------------------------
(* query_user_licenses and generate_change_summary *)

\* a in b, for the identifiers, names and ids of the model
IsPartOf(a, b) == a = b \/ <<a, b>> \in {<<"bob", "bob shrager">>, <<"amy", "amy segal">>}

find_user_by_identifier(us, identifier) ==
    LET id == Lower(identifier)
        by_email == FirstOf(SelectSeq(us, LAMBDA u : Lower(u.email) = id))
        by_name == FirstOf(SelectSeq(us, LAMBDA u : Lower(u.full_name) = id))
        matching_users == SelectSeq(us, LAMBDA u : \/ IsPartOf(id, Lower(u.full_name))
                                                   \/ IsPartOf(id, Lower(u.user_id)))
    IN IF id \in UserKeys(us) THEN FirstOf(SelectSeq(us, LAMBDA u : Lower(u.user_id) = id))
       ELSE IF by_email # <<>> THEN by_email
       ELSE IF by_name # <<>> THEN by_name
       ELSE IF Len(matching_users) = 1 THEN matching_users
       ELSE <<>>

\* the counts of active entries per f"{assignment_type}{license_type}", as a function
\* on the keys that occur (the order of the dict is left out)
LicenseStats(es, positions) ==
    LET keys == {<<es[i].assignment_type, es[i].license_type>> :
                    i \in {j \in positions : es[j].is_active}}
    IN [k \in keys |->
           Cardinality({i \in positions : /\ es[i].is_active
                                          /\ es[i].assignment_type = k[1]
                                          /\ es[i].license_type = k[2]})]

Range(seq) == {seq[i] : i \in 1..Len(seq)}

\* the number of active entries of key k in the lists of positions, each list
\* counted: queried_users_stats.get(license_key, 0) + 1 for every identifier
RECURSIVE CountIn(_, _, _)
CountIn(es, lists, k) ==
    IF lists = <<>> THEN 0
    ELSE Cardinality({i \in Range(Head(lists)) : /\ es[i].is_active
                                                 /\ es[i].assignment_type = k[1]
                                                 /\ es[i].license_type = k[2]})
         + CountIn(es, Tail(lists), k)

\* lines 658-669: the counts over the entries of every identifier that resolves
QueriedStats(es, lists) ==
    LET positions == UNION {Range(lists[n]) : n \in 1..Len(lists)}
        keys == {<<es[i].assignment_type, es[i].license_type>> :
                    i \in {j \in positions : es[j].is_active}}
    IN [k \in keys |-> CountIn(es, lists, k)]

query_user_licenses(us, es, identifiers) ==
    LET user_licenses == build_combined_user_license_table(us, es)
        overall_stats == LicenseStats(es, 1..Len(es))
        EntriesOf(identifier) ==
            IF find_user_by_identifier(us, identifier) = <<>> THEN <<>>
            ELSE TableGet(user_licenses,
                          Lower(find_user_by_identifier(us, identifier)[1].user_id))
        queried_users_stats ==
            QueriedStats(es, [n \in 1..Len(identifiers) |-> EntriesOf(identifiers[n])])
        ResultOf(identifier) ==
            LET user == find_user_by_identifier(us, identifier)
                user_entries == EntriesOf(identifier)
                active == SelectSeq(user_entries, LAMBDA i : es[i].is_active)
                user_license_info ==
                    [n \in 1..Len(active) |->
                        AssignmentLine(es[active[n]].assignment_type,
                                       es[active[n]].license_type,
                                       es[active[n]].index, es[active[n]].user_id)]
            IN IF user = <<>>
               THEN [identifier |-> identifier, status |-> "not_found"]
               ELSE IF user_entries = <<>>
               THEN [identifier |-> identifier, user |-> user, status |-> "no_license"]
               ELSE IF user_license_info # <<>>
               THEN [identifier |-> identifier, user |-> user, status |-> "has_license",
                     licenses |-> user_license_info, overall_stats |-> overall_stats,
                     queried_users_stats |-> queried_users_stats]
               ELSE [identifier |-> identifier, user |-> user,
                     status |-> "no_active_license"]
    IN [n \in 1..Len(identifiers) |-> ResultOf(identifiers[n])]

RECURSIVE Flatten(_)
Flatten(seqs) == IF seqs = <<>> THEN <<>> ELSE Head(seqs) \o Flatten(Tail(seqs))

\* the summary as a sequence of lines
generate_change_summary(ch) ==
    LET added_users == SelectSeq(ch, LAMBDA c : c.action = "add")
        removed_users == SelectSeq(ch, LAMBDA c : c.action = "remove")
        switched_users == SelectSeq(ch, LAMBDA c : c.action = "switch")
        switch_ids == {switched_users[i].user_id : i \in 1..Len(switched_users)}
        \* the user ids of switch_groups in insertion order
        group_ids == SelectSeq([i \in 1..Len(switched_users) |->
                                   IF \A j \in 1..(i - 1) :
                                         switched_users[j].user_id # switched_users[i].user_id
                                   THEN switched_users[i].user_id ELSE NoName],
                               LAMBDA x : x # NoName)
        LastOf(seq) == IF seq = <<>> THEN <<>> ELSE <<seq[Len(seq)]>>
        OldOf(uid) == LastOf(SelectSeq(switched_users,
                         LAMBDA c : c.user_id = uid /\ c.old_license # None))
        NewOf(uid) == LastOf(SelectSeq(switched_users,
                         LAMBDA c : c.user_id = uid /\ c.new_license # None))
        NameOf(uid) == FirstOf(SelectSeq(switched_users, LAMBDA c : c.user_id = uid))[1].user_name
    IN IF ch = <<>> THEN << <<"No changes were made.">> >>
       ELSE << <<"=== LICENSE CHANGES SUMMARY ===">> >>
            \o (IF added_users = <<>> THEN <<>>
                ELSE << <<"ADDED USERS:">> >>
                     \o Flatten([i \in 1..Len(added_users) |->
                           << <<"  + ", added_users[i].user_name, " (",
                                added_users[i].user_id, ") - ">>
                                  \o added_users[i].new_license,
                              <<"    Line added: ">> \o added_users[i].line_added >>])
                     \o << <<>> >>)
            \o (IF removed_users = <<>> THEN <<>>
                ELSE << <<"REMOVED USERS:">> >>
                     \o Flatten([i \in 1..Len(removed_users) |->
                           << <<"  - ", removed_users[i].user_name, " (",
                                removed_users[i].user_id, ") - ">>
                                  \o removed_users[i].old_license,
                              <<"    Line removed: ">> \o removed_users[i].line_removed >>])
                     \o << <<>> >>)
            \o (IF switched_users = <<>> THEN <<>>
                ELSE << <<"SWITCHED USERS:">> >>
                     \o [i \in 1..Len(group_ids) |->
                           <<"  ~ ", NameOf(group_ids[i]), " (", group_ids[i], ") - ">>
                              \o (IF OldOf(group_ids[i]) = <<>> THEN <<"None">>
                                  ELSE OldOf(group_ids[i])[1].old_license)
                              \o <<" -> ">>
                              \o (IF NewOf(group_ids[i]) = <<>> THEN <<"None">>
                                  ELSE NewOf(group_ids[i])[1].new_license)]
                     \o << <<>> >>)
            \o << <<"Total changes: ", ToString(Len(ch))>> >>

----------------------------------------------------------------------------
(* The session *)

Call(op, ok, logged, written) ==
    [op |-> op, ok |-> ok, logged |-> logged, written |-> written]

\* the entry parse_license_configuration appends for line ln
ParsedEntry(ln) ==
    {LicenseEntry(lt, "Named", ln, uid, ln, TRUE) :
        lt \in ParsedCategories, uid \in ParsedUserIds}

ParsedConfigurations ==
    UNION {{es \in [1..n -> UNION {ParsedEntry(ln) : ln \in 1..n}] :
                \A i \in 1..n : es[i].line_number = i} : n \in 0..MaxInitEntries}

\* the text of a parsed configuration: assignment lines only, no sections
ConfigTextOf(es) ==
    [i \in 1..Len(es) |->
        AssignmentLine(es[i].assignment_type, es[i].license_type, es[i].index,
                       es[i].user_id)]

Init ==
    /\ users \in Directories
    /\ license_entries \in ParsedConfigurations
    /\ license_config_text = ConfigTextOf(license_entries)
    /\ parsed_entries = license_entries
    /\ changes = <<>>
    /\ returned = None
    /\ last_call = Call("parse", TRUE, 0, {})

\* a call of a mutation: the session takes the state the method leaves
Commit(op, r) ==
    /\ license_entries' = r.license_entries
    /\ changes' = r.changes
    /\ last_call' = Call(op, r.ok, Len(r.changes) - Len(changes), {})
    /\ UNCHANGED <<users, license_config_text, parsed_entries, returned>>

Add(user, lt, at) ==
    /\ Len(license_entries) < MaxEntries
    /\ Len(changes) < MaxChanges
    /\ Commit("add", add_user_license(users, license_entries, changes, user, lt, at))

Remove(user_id, lt, at) ==
    /\ Len(changes) < MaxChanges
    /\ Commit("remove", remove_user_license(users, license_entries, changes, user_id, lt, at))

Switch(user, olt, oat, nlt, nat) ==
    /\ Len(license_entries) < MaxEntries
    /\ Len(changes) + 1 < MaxChanges
    /\ Commit("switch", switch_user_license(users, license_entries, changes, user,
                                           olt, oat, nlt, nat))

\* menu option 7, "Apply changes and generate output"; confirm is the answer to
\* "Apply these changes? (y/n)", write is how far the writing of the two output
\* files gets before open() or write() raises: "none", "updated" or "both"
ApplyChanges(confirm, write) ==
    IF changes = <<>> \/ validate_changes(users, license_entries) # <<>> \/ confirm # "y"
    THEN /\ last_call' = Call("apply", FALSE, 0, {})
         /\ UNCHANGED <<users, license_entries, changes, license_config_text,
                        parsed_entries, returned>>
    ELSE /\ changes' = <<>>
         /\ last_call' = Call("apply", write = "both", 0,
                              CASE write = "none" -> {}
                                [] write = "updated" -> {"polarion_license_updated"}
                                [] write = "both" -> {"polarion_license_updated",
                                                      "polarion_license_changes"})
         /\ UNCHANGED <<users, license_entries, license_config_text, parsed_entries,
                        returned>>

\* the (license_type, assignment_type) pairs the callers of the operations pass
InputPartitions == {<<"ALM", "Named">>, <<"ALM", "Concurrent">>, <<"QA", "Named">>}

Next ==
    \/ \E user \in UserPool, p \in InputPartitions : Add(user, p[1], p[2])
    \/ \E user_id \in UserIds, p \in InputPartitions : Remove(user_id, p[1], p[2])
    \/ \E user \in UserPool, old \in InputPartitions, new \in InputPartitions :
          Switch(user, old[1], old[2], new[1], new[2])
    \/ \E confirm \in {"y", "n"}, write \in {"none", "updated", "both"} :
          ApplyChanges(confirm, write)

Spec == Init /\ [][Next]_vars

\* the read-only methods
ReadOnlyOps ==
    {"build_combined_user_license_table", "validate_changes",
     "find_inactive_users_with_licenses", "query_user_licenses",
     "update_license_config_text", "generate_change_summary"}

\* what a read-only method returns in the current state
ReadOnlyResult(op, identifiers) ==
    CASE op = "build_combined_user_license_table" ->
            build_combined_user_license_table(users, license_entries)
      [] op = "validate_changes" -> validate_changes(users, license_entries)
      [] op = "find_inactive_users_with_licenses" ->
            find_inactive_users_with_licenses(users, license_entries)
      [] op = "query_user_licenses" ->
            query_user_licenses(users, license_entries, identifiers)
      [] op = "update_license_config_text" ->
            update_license_config_text(license_config_text, license_entries)
      [] op = "generate_change_summary" -> generate_change_summary(changes)

\* a read-only method that sorts self.license_entries in place and empties the log
ReadOnly_mutating(op, identifiers) ==
    /\ returned' = [op |-> op, identifiers |-> identifiers,
                    value |-> ReadOnlyResult(op, identifiers)]
    /\ last_call' = Call(op, TRUE, 0, {})
    /\ license_entries' = SortedEntries(license_entries)
    /\ changes' = <<>>
    /\ UNCHANGED <<users, license_config_text, parsed_entries>>

\* a call of a read-only method: none of them assigns to the session
ReadOnly(op, identifiers) ==
    /\ returned' = [op |-> op, identifiers |-> identifiers,
                    value |-> ReadOnlyResult(op, identifiers)]
    /\ last_call' = Call(op, TRUE, 0, {})
    /\ UNCHANGED <<users, license_entries, changes, license_config_text, parsed_entries>>

\* the lines of the configuration texts: the headers of the sample configuration,
\* a comment, an empty line, two assignment lines and a commented assignment line
CommentLine == <<"# ", "owner", "=", "it">>

TextLines ==
    {SectionHeader("ALM"), SectionHeader("QA"),
     SubsectionHeader("Named"), SubsectionHeader("Concurrent"),
     CommentLine, <<>>,
     AssignmentLine("Named", "ALM", 2, "amy"),
     AssignmentLine("Named", "ALM", 1, "Bob"),
     <<"#">> \o AssignmentLine("Named", "QA", 1, "amy")}

ConfigurationTexts == UNION {[1..n -> TextLines] : n \in 0..MaxLines}

\* the directories of these sessions: amy alone (Bob is then unknown), or amy and Bob
TextDirectories ==
    { <<User("amy", FullNameOf("amy"), EmailOf("amy"))>>,
      <<User("amy", FullNameOf("amy"), EmailOf("amy")),
        User("Bob", FullNameOf("bob"), EmailOf("bob"))>> }

\* a session on a configuration text with sections, after parse_license_configuration
TextInit ==
    /\ users \in TextDirectories
    /\ license_config_text \in ConfigurationTexts
    /\ license_entries = parse_license_configuration(license_config_text)
    /\ parsed_entries = license_entries
    /\ changes = <<>>
    /\ returned = None
    /\ last_call = Call("parse", TRUE, 0, {})

TextNext ==
    \/ \E user \in UserPool, p \in InputPartitions :
          Len(changes) < MaxTextChanges /\ Add(user, p[1], p[2])
    \/ \E user_id \in UserIds, p \in InputPartitions :
          Len(changes) < MaxTextChanges /\ Remove(user_id, p[1], p[2])
    \/ \E op \in ReadOnlyOps, user_id \in UserIds :
          ReadOnly(op, IF op = "query_user_licenses" THEN <<user_id>> ELSE None)

TextSpec == TextInit /\ [][TextNext]_vars

----------------------------------------------------------------------------
(* Vocabulary of the properties *)

SamePartition(e, lt, at) == e.license_type = lt /\ e.assignment_type = at

\* positions of the active entries of a user id, compared case-insensitively
ActiveOf(es, user_id) ==
    {i \in 1..Len(es) : es[i].is_active /\ Lower(es[i].user_id) = Lower(user_id)}

\* positions of the active entries of a user id in one (category, mode) partition
ActiveMatching(es, user_id, lt, at) ==
    {i \in ActiveOf(es, user_id) : SamePartition(es[i], lt, at)}

\* I1: no user id has more than one active entry
AtMostOneActive(es) ==
    \A i, j \in 1..Len(es) :
        (es[i].is_active /\ es[j].is_active
         /\ Lower(es[i].user_id) = Lower(es[j].user_id)) => i = j

IsPrefix(s, t) == Len(s) <= Len(t) /\ \A i \in 1..Len(s) : t[i] = s[i]

Last(s) == s[Len(s)]

----------------------------------------------------------------------------
(* C1: starting from a parsed configuration in which no user id (compared  *)
(* case-insensitively) has more than one active entry, every user id has   *)
(* at most one active entry after any sequence of add, remove and switch.  *)
(* The code does not keep this: TLC finds C1_OneActivePerUser violated.     *)
C1_OneActivePerUser ==
    AtMostOneActive(parsed_entries) => AtMostOneActive(license_entries)

----------------------------------------------------------------------------
(* C2: add(user, category, mode) returns failure whenever the user already *)
(* has an active entry of any category and mode, and on that failure the   *)
(* entry list and the change log are unchanged.  The code does not keep    *)
(* this: TLC finds C2_AddFailsWhenLicensed violated.                        *)
C2_AddFailsWhenLicensed ==
    [][\A user \in UserPool, p \in InputPartitions :
          (Add(user, p[1], p[2]) /\ ActiveOf(license_entries, user.user_id) # {})
          => /\ ~last_call'.ok
             /\ license_entries' = license_entries
             /\ changes' = changes]_vars

----------------------------------------------------------------------------
(* C3: a successful add(user, c, m) appends exactly one new active entry   *)
(* with source line 0 whose slot index is 1 when the (c, m) partition has  *)
(* no active entry and otherwise the largest slot index of the active      *)
(* entries of (c, m) plus 1, and appends exactly one 'add' change record;  *)
(* entries of other partitions and inactive entries do not influence the   *)
(* index.                                                                  *)
ActiveInPartition(es, lt, at) ==
    {i \in 1..Len(es) : es[i].is_active /\ SamePartition(es[i], lt, at)}

IsNextSlot(es, lt, at, idx) ==
    IF ActiveInPartition(es, lt, at) = {}
    THEN idx = 1
    ELSE /\ \E i \in ActiveInPartition(es, lt, at) : idx = es[i].index + 1
         /\ \A i \in ActiveInPartition(es, lt, at) : es[i].index < idx

C3_AddAppendsNextSlot ==
    [][\A user \in UserPool, p \in InputPartitions :
          (Add(user, p[1], p[2]) /\ last_call'.ok)
          => /\ Len(license_entries') = Len(license_entries) + 1
             /\ IsPrefix(license_entries, license_entries')
             /\ Last(license_entries').is_active
             /\ Last(license_entries').line_number = 0
             /\ Last(license_entries').user_id = user.user_id
             /\ SamePartition(Last(license_entries'), p[1], p[2])
             /\ IsNextSlot(license_entries, p[1], p[2], Last(license_entries').index)
             /\ Len(changes') = Len(changes) + 1
             /\ IsPrefix(changes, changes')
             /\ Last(changes').action = "add"
             /\ Last(changes').user_id = user.user_id]_vars

\* an add has just assigned a slot index above 1 although an inactive entry of the
\* same partition holds an index at least as large and an entry of another
\* partition, or no other entry, holds a larger one
C3_Witness ==
    /\ last_call.op = "add" /\ last_call.ok
    /\ Last(license_entries).index > 1
    /\ \E i \in 1..Len(license_entries) - 1 :
          /\ ~license_entries[i].is_active
          /\ SamePartition(license_entries[i], Last(license_entries).license_type,
                           Last(license_entries).assignment_type)
          /\ license_entries[i].index >= Last(license_entries).index

----------------------------------------------------------------------------
(* C4: a slot index that add has once assigned in a (category, mode)       *)
(* partition is never assigned again by a later add, even after the entry  *)
(* holding it was removed.  The code does assign it again: TLC finds        *)
(* C4_NeverAssignedAgain violated.                                          *)
AddedInSamePartition(es, i, j) ==
    /\ es[i].line_number = 0 /\ es[j].line_number = 0
    /\ SamePartition(es[i], es[j].license_type, es[j].assignment_type)

C4_NeverAssignedAgain ==
    \A i, j \in 1..Len(license_entries) :
        (i < j /\ AddedInSamePartition(license_entries, i, j))
        => license_entries[i].index # license_entries[j].index

(* C4 as amended: add never assigns a slot index that an active entry of   *)
(* the partition holds; an index is assigned again only after the entry    *)
(* that held it was removed.                                               *)
C4_AssignedAgainOnlyAfterRemoval ==
    \A i, j \in 1..Len(license_entries) :
        (/\ i < j
         /\ license_entries[j].line_number = 0
         /\ SamePartition(license_entries[i], license_entries[j].license_type,
                          license_entries[j].assignment_type)
         /\ license_entries[i].index = license_entries[j].index)
        => ~license_entries[i].is_active

\* add assigned an index, its entry was removed, and a later add assigned the
\* same index again
C4_Witness ==
    \E i, j \in 1..Len(license_entries) :
        /\ i < j
        /\ AddedInSamePartition(license_entries, i, j)
        /\ license_entries[i].index = license_entries[j].index
        /\ ~license_entries[i].is_active
        /\ license_entries[j].is_active

----------------------------------------------------------------------------
(* C5: remove(user_id, category, mode) returns failure and leaves the      *)
(* entry list and the change log unchanged when no active entry matches    *)
(* that user id (case-insensitively) with exactly that category and mode;  *)
(* otherwise it sets active=false on exactly one matching entry, the first *)
(* in list order, changes no other entry, and appends exactly one 'remove' *)
(* change record carrying the reconstructed assignment line with that      *)
(* entry's slot index.                                                     *)
Changed(es, es2) == {i \in 1..Len(es) : es2[i] # es[i]}

C5_RemoveFirstMatchOrFail ==
    [][\A user_id \in UserIds, p \in InputPartitions :
          Remove(user_id, p[1], p[2])
          => LET matching == ActiveMatching(license_entries, user_id, p[1], p[2]) IN
             IF matching = {}
             THEN /\ ~last_call'.ok
                  /\ license_entries' = license_entries
                  /\ changes' = changes
             ELSE /\ last_call'.ok
                  /\ Len(license_entries') = Len(license_entries)
                  /\ \E i \in matching :
                        /\ \A j \in matching : i <= j
                        /\ Changed(license_entries, license_entries') = {i}
                        /\ license_entries'[i] =
                              [license_entries[i] EXCEPT !.is_active = FALSE]
                        /\ Last(changes').line_removed =
                              <<Lower(p[2]), p[1], "User",
                                ToString(license_entries[i].index), "=", user_id>>
                  /\ Len(changes') = Len(changes) + 1
                  /\ IsPrefix(changes, changes')
                  /\ Last(changes').action = "remove"
                  /\ Last(changes').line_added = None]_vars

\* a remove has just deactivated the first of two active entries of one user and
\* partition that differ in slot index, and recorded the line of the first
C5_Witness ==
    /\ last_call.op = "remove" /\ last_call.ok
    /\ \E i, j \in 1..Len(license_entries) :
          /\ i < j
          /\ ~license_entries[i].is_active /\ license_entries[j].is_active
          /\ Lower(license_entries[i].user_id) = Lower(license_entries[j].user_id)
          /\ SamePartition(license_entries[i], license_entries[j].license_type,
                           license_entries[j].assignment_type)
          /\ license_entries[i].index # license_entries[j].index
          /\ Last(changes).line_removed[4] = ToString(license_entries[i].index)
          /\ Lower(Last(changes).user_id) = Lower(license_entries[i].user_id)

----------------------------------------------------------------------------
(* C6: for a user with exactly one active entry, of (old category, old     *)
(* mode), switch(user, old category, old mode, new category, new mode)     *)
(* succeeds and afterwards the user has exactly one active entry, which    *)
(* has the new category and mode, and the old entry is still in the list,  *)
(* marked inactive.                                                        *)
C6_SwitchMovesTheOneLicense ==
    [][\A user \in UserPool, old \in InputPartitions, new \in InputPartitions :
          (/\ Switch(user, old[1], old[2], new[1], new[2])
           /\ Cardinality(ActiveOf(license_entries, user.user_id)) = 1
           /\ ActiveMatching(license_entries, user.user_id, old[1], old[2]) # {})
          => /\ last_call'.ok
             /\ Cardinality(ActiveOf(license_entries', user.user_id)) = 1
             /\ \A j \in ActiveOf(license_entries', user.user_id) :
                   SamePartition(license_entries'[j], new[1], new[2])
             /\ \A i \in ActiveOf(license_entries, user.user_id) :
                   license_entries'[i] =
                       [license_entries[i] EXCEPT !.is_active = FALSE]]_vars

\* a switch has just succeeded: the user's entry of the old partition is inactive
\* and the user's only active entry is of another partition
C6_Witness ==
    /\ last_call.op = "switch" /\ last_call.ok
    /\ Cardinality(ActiveOf(license_entries, Last(license_entries).user_id)) = 1
    /\ Last(license_entries).is_active
    /\ \E i \in 1..Len(license_entries) - 1 :
          /\ ~license_entries[i].is_active
          /\ Lower(license_entries[i].user_id) = Lower(Last(license_entries).user_id)
          /\ ~SamePartition(license_entries[i], Last(license_entries).license_type,
                            Last(license_entries).assignment_type)
          /\ Last(changes).action = "switch"

----------------------------------------------------------------------------
(* C7: switch is transactional: after any call to switch, either both the  *)
(* removal and the addition are applied and recorded, or neither the entry *)
(* list nor the change log has changed.  The code leaves the removal       *)
(* applied when the add half fails: TLC finds C7_SwitchTransactional        *)
(* violated.                                                               *)
C7_SwitchTransactional ==
    [][\A user \in UserPool, old \in InputPartitions, new \in InputPartitions :
          Switch(user, old[1], old[2], new[1], new[2])
          => \/ /\ Len(license_entries') = Len(license_entries) + 1
                /\ Changed(license_entries, license_entries') # {}
                /\ Len(changes') = Len(changes) + 2
             \/ /\ license_entries' = license_entries
                /\ changes' = changes]_vars

----------------------------------------------------------------------------
(* C8: if either step of switch fails the whole switch returns failure and *)
(* nothing already done is rolled back: when remove fails the state is     *)
(* unchanged, and when remove succeeds but add fails the removed entry     *)
(* stays inactive and its change record stays in the log with action       *)
(* 'remove'.                                                               *)
C8_FailedSwitchKeepsRemoval ==
    [][\A user \in UserPool, old \in InputPartitions, new \in InputPartitions :
          Switch(user, old[1], old[2], new[1], new[2])
          => LET matching ==
                    ActiveMatching(license_entries, user.user_id, old[1], old[2])
             IN /\ matching = {}
                   => /\ ~last_call'.ok
                      /\ license_entries' = license_entries
                      /\ changes' = changes
                /\ (matching # {} /\ ~last_call'.ok)
                   => /\ Len(license_entries') = Len(license_entries)
                      /\ \E i \in matching :
                            /\ Changed(license_entries, license_entries') = {i}
                            /\ ~license_entries'[i].is_active
                      /\ Len(changes') = Len(changes) + 1
                      /\ IsPrefix(changes, changes')
                      /\ Last(changes').action = "remove"
                      /\ Last(changes').user_id = user.user_id]_vars

\* a switch has just failed in its add half: it returned failure, it logged one
\* record, a 'remove', and the user still holds an active entry
C8_Witness ==
    /\ last_call.op = "switch" /\ ~last_call.ok /\ last_call.logged = 1
    /\ Last(changes).action = "remove"
    /\ ActiveOf(license_entries, Last(changes).user_id) # {}
    /\ \E i \in 1..Len(license_entries) :
          /\ ~license_entries[i].is_active
          /\ Lower(license_entries[i].user_id) = Lower(Last(changes).user_id)

----------------------------------------------------------------------------
(* C9: under any sequence of add, remove and switch operations the entry   *)
(* list only grows: no entry is ever deleted, no existing entry's          *)
(* category, mode, slot index or user id changes, and an entry's active    *)
(* flag never changes from false back to true.                             *)
C9_EntriesOnlyGrow ==
    [][/\ Len(license_entries') >= Len(license_entries)
       /\ \A i \in 1..Len(license_entries) :
             /\ license_entries'[i].license_type = license_entries[i].license_type
             /\ license_entries'[i].assignment_type = license_entries[i].assignment_type
             /\ license_entries'[i].index = license_entries[i].index
             /\ license_entries'[i].user_id = license_entries[i].user_id
             /\ license_entries'[i].line_number = license_entries[i].line_number
             /\ ~license_entries[i].is_active => ~license_entries'[i].is_active]_vars

\* the list has grown by an add, and an entry of the parsed configuration that is
\* not the last of the parsed ones has been removed and is still in the list
C9_Witness ==
    /\ Len(license_entries) > Len(parsed_entries)
    /\ Len(parsed_entries) > 1
    /\ parsed_entries[1].is_active
    /\ license_entries[1] = [parsed_entries[1] EXCEPT !.is_active = FALSE]

----------------------------------------------------------------------------
(* C10: the change log is append-only and is emptied only after the        *)
(* updated configuration has been successfully serialized and written: in  *)
(* the interactive session, if writing the output files fails, the change  *)
(* log still holds every recorded change.  The code empties the log after  *)
(* a failed write too: TLC finds C10_LogKeptUntilWritten violated.          *)
C10_LogKeptUntilWritten ==
    [][\/ IsPrefix(changes, changes')
       \/ /\ changes' = <<>>
          /\ last_call'.op = "apply"
          /\ "polarion_license_updated" \in last_call'.written]_vars

----------------------------------------------------------------------------
(* Vocabulary of the properties of the configuration text *)

\* the active entries as (category, mode, slot index, user id), without line numbers
ActiveSet(es) ==
    {<<es[i].license_type, es[i].assignment_type, es[i].index, es[i].user_id>> :
        i \in {j \in 1..Len(es) : es[j].is_active}}

\* update_license_config_text has just returned the text in returned.value
Serialized == last_call.op = "update_license_config_text"

Unmodified == license_entries = parsed_entries

----------------------------------------------------------------------------
(* C11: round trip: for every configuration text, parsing the text,        *)
(* serializing the unmodified entry list and parsing that output yields    *)
(* the same set of active entries (category, mode, slot index, user id),   *)
(* ignoring line numbers, as parsing the original text.  The code loses an *)
(* entry whose line stands under the headers of another section when its   *)
(* own section is missing: TLC finds C11_RoundTrip violated.                *)
C11_RoundTrip ==
    (Serialized /\ Unmodified)
    => ActiveSet(parse_license_configuration(returned.value)) = ActiveSet(parsed_entries)

----------------------------------------------------------------------------
(* C12: serialization preserves structure: every line of the original text *)
(* that is neither a license-assignment line nor a section or subsection   *)
(* header appears in the output unchanged, exactly once, and these lines   *)
(* together with the headers keep their original relative order, whatever  *)
(* mutations were applied.                                                 *)

\* a line of the shape <prefix>User<N>=<value>, as it stands or commented out
IsAssignmentLine(line) ==
    \/ AssignmentMatch(line)
    \/ /\ line # <<>> /\ Head(line) \in {"#", "# "}
       /\ AssignmentMatch(Tail(line))

\* the headers and the other lines of a text, in their order
NonAssignmentLines(text) == SelectSeq(text, LAMBDA line : ~IsAssignmentLine(line))

----------------------------------------------------------------------------
(* C13: every entry line the serializer inserts is placed directly after   *)
(* the mode subheader that belongs to the entry's own category section     *)
(* (between that section's header and the next section header), and the    *)
(* lines of one (category, mode) group are contiguous and in ascending     *)
(* slot-index order.  The code looks for the subheader down to the end of  *)
(* the text and so inserts under the subheader of a later section: TLC     *)
(* finds C13_InsertedUnderOwnSubheader violated.                            *)

\* the positions of the output that hold inserted lines: the output is the copied
\* lines with the inserted ones in between
RECURSIVE InsertedPositions(_, _, _, _)
InsertedPositions(out, copied, p, q) ==
    IF p > Len(out) THEN {}
    ELSE IF q <= Len(copied) /\ out[p] = copied[q]
    THEN InsertedPositions(out, copied, p + 1, q + 1)
    ELSE {p} \cup InsertedPositions(out, copied, p + 1, q)

Inserted(out) ==
    InsertedPositions(out, CopyLines(license_config_text, 1, NoName, NoName), 1, 1)

\* the assignment of an inserted line, without the comment mark
AssignmentOf(line) == IF Head(line) = "# " THEN Tail(line) ELSE line

SameGroup(l1, l2) ==
    /\ AssignmentOf(l1)[1] = AssignmentOf(l2)[1]
    /\ AssignmentOf(l1)[2] = AssignmentOf(l2)[2]

\* the last line above position p that was not inserted, 0 if there is none
CopiedAbove(out, p) ==
    LET above == {q \in 1..(p - 1) : q \notin Inserted(out)}
    IN IF above = {} THEN 0 ELSE SetMax(above)

\* the last section header above position p, 0 if there is none
SectionAbove(out, p) ==
    LET above == {q \in 1..(p - 1) : StartsWithSectionMarker(out[q])}
    IN IF above = {} THEN 0 ELSE SetMax(above)

UnderOwnSubheader(out, p) ==
    LET h == CopiedAbove(out, p)
        sec == SectionAbove(out, p)
    IN /\ h # 0 /\ sec # 0 /\ sec < h
       /\ \E at \in assignment_types :
             /\ out[h] = SubsectionHeader(at)
             /\ AssignmentOf(out[p])[1] = Lower(at)
       /\ out[sec][2] = AssignmentOf(out[p])[2]

GroupsContiguousAscending(out) ==
    \A p1, p2 \in Inserted(out) :
        (p1 < p2 /\ SameGroup(out[p1], out[p2]))
        => /\ \A p \in p1..p2 : p \in Inserted(out) /\ SameGroup(out[p], out[p1])
           /\ IntOf(AssignmentOf(out[p1])[4]) <= IntOf(AssignmentOf(out[p2])[4])

C13_InsertedUnderOwnSubheader ==
    Serialized
    => /\ \A p \in Inserted(returned.value) : UnderOwnSubheader(returned.value, p)
       /\ GroupsContiguousAscending(returned.value)

----------------------------------------------------------------------------
(* C14: an entry whose category has no section header in the original      *)
(* text, or whose category section contains no subheader for the entry's   *)
(* mode, produces no line in the serialized output: it is dropped, not     *)
(* placed elsewhere.  The code places it under the subheader of a later    *)
(* section, as in C13: TLC finds C14_DroppedWithoutSubheader violated.      *)

\* the text has a section header of the category and, before the next section
\* header, a subheader of the assignment type
SectionHasSubheader(text, category, assignment_type) ==
    \E i, j \in 1..Len(text) :
        /\ i < j
        /\ StartsWithSectionMarker(text[i]) /\ text[i][2] = category
        /\ text[j] = SubsectionHeader(assignment_type)
        /\ \A q \in (i + 1)..(j - 1) : ~StartsWithSectionMarker(text[q])

HasOwnSubheader(e) ==
    SectionHasSubheader(license_config_text, e.license_type, e.assignment_type)

C14_DroppedWithoutSubheader ==
    Serialized
    => \A i \in 1..Len(license_entries) :
          ~HasOwnSubheader(license_entries[i])
          => \A p \in Inserted(returned.value) :
                returned.value[p] # RenderEntry(license_entries[i],
                                                license_entries[i].license_type,
                                                license_entries[i].assignment_type)

----------------------------------------------------------------------------
(* C15: for entries whose section and mode subheader exist in the original *)
(* text, the serializer renders each active entry as                       *)
(* <mode-lowercase><category>User<index>=<user_id> and each inactive entry *)
(* as a commented line annotated (removed); so after a successful remove   *)
(* (of the user's only active entry) the serialized text holds no active   *)
(* assignment line for the removed slot and user, and re-parsing it yields *)
(* no active entry for that user.  The code keeps the original line when   *)
(* it stands before the subheader: TLC finds C15_RemovedLineGone violated.  *)

Lines(text) == {text[i] : i \in 1..Len(text)}

\* the section and the subheader of the entry exist, and the text has one section
\* header per category and one subheader per section and assignment type
HasSubheaderInPlainText(e) ==
    /\ HasOwnSubheader(e)
    /\ \A i, j \in 1..Len(license_config_text) :
          (/\ i < j
           /\ StartsWithSectionMarker(license_config_text[i])
           /\ StartsWithSectionMarker(license_config_text[j]))
          => license_config_text[i] # license_config_text[j]

RenderedAsSpecified(out, e) ==
    IF e.is_active
    THEN <<Lower(e.assignment_type), e.license_type, "User", ToString(e.index), "=",
           e.user_id>> \in Lines(out)
    ELSE <<"# ", Lower(e.assignment_type), e.license_type, "User", ToString(e.index),
           "=", e.user_id, " (removed)">> \in Lines(out)

\* the position of the entry the one recorded remove has deactivated
RemovedPosition ==
    CHOOSE i \in 1..Len(license_entries) : license_entries[i] # parsed_entries[i]

AfterRemoveOfOnlyLicense ==
    /\ Serialized
    /\ Len(changes) = 1 /\ changes[1].action = "remove"
    /\ ActiveOf(license_entries, changes[1].user_id) = {}
    /\ HasSubheaderInPlainText(license_entries[RemovedPosition])

C15_RemovedLineGone ==
    /\ Serialized
       => \A i \in 1..Len(license_entries) :
             HasSubheaderInPlainText(license_entries[i])
             => RenderedAsSpecified(returned.value, license_entries[i])
    /\ AfterRemoveOfOnlyLicense
       => LET e == license_entries[RemovedPosition] IN
          /\ <<Lower(e.assignment_type), e.license_type, "User", ToString(e.index), "=",
               e.user_id>> \notin Lines(returned.value)
          /\ ActiveOf(parse_license_configuration(returned.value), e.user_id) = {}

----------------------------------------------------------------------------
----------------------------------------------------------------------------
(* C17: the license table has one list per directory user id and it        *)
(* partitions the active entries: every active entry appears in exactly    *)
(* one list and exactly once, under its lowercased user id when that id is *)
(* in the directory and otherwise in its own list keyed by the literal     *)
(* user id; inactive entries appear in no list.  The code replaces the     *)
(* list of an unknown user id by each further entry of that id: TLC finds  *)
(* C17_TablePartitionsActive violated.                                      *)

\* the places <<j, n>> of the table that hold entry i
PlacesOf(tbl, i) ==
    {pl \in UNION {{<<j, n>> : n \in 1..Len(tbl[j].entries)} : j \in 1..Len(tbl)} :
        tbl[pl[1]].entries[pl[2]] = i}

C17_TablePartitionsActive ==
    LET tbl == build_combined_user_license_table(users, license_entries) IN
    /\ \A k \in UserKeys(users) : Cardinality({j \in 1..Len(tbl) : tbl[j].key = k}) = 1
    /\ \A i \in 1..Len(license_entries) :
          IF license_entries[i].is_active
          THEN /\ Cardinality(PlacesOf(tbl, i)) = 1
               /\ \A pl \in PlacesOf(tbl, i) :
                     tbl[pl[1]].key =
                         IF Lower(license_entries[i].user_id) \in UserKeys(users)
                         THEN Lower(license_entries[i].user_id)
                         ELSE license_entries[i].user_id
          ELSE PlacesOf(tbl, i) = {}

----------------------------------------------------------------------------
(* C18: stale detection: find_inactive_users_with_licenses() returns       *)
(* exactly the active entries whose user id (case-insensitively) is absent *)
(* from the directory, and no such entry appears in any license-table list *)
(* keyed by a directory user id.                                           *)
StaleEntries ==
    {i \in 1..Len(license_entries) :
        /\ license_entries[i].is_active
        /\ \A n \in 1..Len(users) :
              Lower(users[n].user_id) # Lower(license_entries[i].user_id)}

C18_StaleDetection ==
    LET found == find_inactive_users_with_licenses(users, license_entries)
        tbl == build_combined_user_license_table(users, license_entries)
    IN /\ Range(found) = StaleEntries
       /\ Len(found) = Cardinality(StaleEntries)
       /\ \A j \in 1..Len(tbl) :
             tbl[j].key \in UserKeys(users) => Range(tbl[j].entries) \cap StaleEntries = {}

\* the directory knows amy and not Bob; amy and Bob both hold an active entry, and
\* an entry of Bob has been removed
C18_Witness ==
    /\ Len(users) = 1
    /\ \E i, j, k \in 1..Len(license_entries) :
          /\ license_entries[i].is_active /\ license_entries[i].user_id = "amy"
          /\ license_entries[j].is_active /\ license_entries[j].user_id = "Bob"
          /\ ~license_entries[k].is_active /\ license_entries[k].user_id = "Bob"
          /\ j \in StaleEntries /\ i \notin StaleEntries /\ k \notin StaleEntries

----------------------------------------------------------------------------
(* C19: validate() returns an empty problem list exactly when no user id   *)
(* has more than one active entry and every active entry's user id is in   *)
(* the directory; it reports one problem per user with several active      *)
(* entries and one problem per active entry of an unknown user.  For a     *)
(* user id outside the directory the table of C17 holds one entry only, so *)
(* its several active entries go unreported: TLC finds                     *)
(* C19_ValidateReportsAll violated.                                         *)

\* the user ids, lowercased, that hold more than one active entry
UsersWithSeveralActive ==
    {Lower(license_entries[i].user_id) :
        i \in {j \in 1..Len(license_entries) :
                 Cardinality(ActiveOf(license_entries, license_entries[j].user_id)) > 1}}

C19_ValidateReportsAll ==
    LET errors == validate_changes(users, license_entries)
        OfKind(kind) == {n \in 1..Len(errors) : errors[n].kind = kind}
    IN /\ errors = <<>> <=> (AtMostOneActive(license_entries) /\ StaleEntries = {})
       /\ Cardinality(OfKind("multiple active licenses"))
             = Cardinality(UsersWithSeveralActive)
       /\ Cardinality(OfKind("non-existent user")) = Cardinality(StaleEntries)

----------------------------------------------------------------------------
(* C20: when an assignment line's prefix names a mode and a category (e.g. *)
(* namedQAUser1 inside the ALM section under CONCURRENT USERS), the parsed *)
(* entry takes the mode and category of the prefix, not those of the       *)
(* enclosing section and subsection headers.                               *)

\* the assignment of the line an entry was parsed from, without the comment mark
SourceOf(e) ==
    LET line == license_config_text[e.line_number]
    IN IF Head(line) \in {"#", "# "} THEN Tail(line) ELSE line

C20_PrefixBeforeContext ==
    \A i \in 1..Len(parsed_entries) :
        LET e == parsed_entries[i] IN
        (SourceOf(e)[1] \in {"named", "concurrent"} /\ SourceOf(e)[2] \in license_categories)
        => /\ Lower(e.assignment_type) = SourceOf(e)[1]
           /\ e.license_type = SourceOf(e)[2]

\* a named ALM line under the headers POLARION QA and CONCURRENT USERS has been
\* parsed as a Named ALM entry
C20_Witness ==
    /\ Len(license_config_text) = 3
    /\ license_config_text[1] = SectionHeader("QA")
    /\ license_config_text[2] = SubsectionHeader("Concurrent")
    /\ Len(parsed_entries) = 1
    /\ parsed_entries[1].line_number = 3
    /\ parsed_entries[1].license_type = "ALM"
    /\ parsed_entries[1].assignment_type = "Named"

----------------------------------------------------------------------------
(* Sessions that parse configuration texts whose assignment lines have
   prefixes that name no mode, no category, or neither *)

\* 'ALMUser1=amy', 'namedUser1=amy' and 'licenseUser1=amy'
ModelessLine == <<"", "ALM", "User", "1", "=", "amy">>

CategorylessLine == <<"named", "", "User", "1", "=", "amy">>

BarePrefixLine == <<"license", "", "User", "1", "=", "amy">>

ParseLines ==
    {SectionHeader("QA"), SubsectionHeader("Named"),
     AssignmentLine("Named", "ALM", 1, "amy"),
     <<"#">> \o AssignmentLine("Named", "QA", 2, "Bob"),
     ModelessLine, CategorylessLine, BarePrefixLine}

ParseTexts == UNION {[1..n -> ParseLines] : n \in 0..MaxLines}

\* the state __init__ leaves
ParseInit ==
    /\ users = <<>>
    /\ license_entries = <<>>
    /\ license_config_text = <<>>
    /\ parsed_entries = <<>>
    /\ changes = <<>>
    /\ returned = None
    /\ last_call = Call("__init__", TRUE, 0, {})

\* parse_license_configuration(config_text)
Parse(config_text) ==
    /\ license_config_text' = config_text
    /\ license_entries' = parse_license_configuration(config_text)
    /\ parsed_entries' = license_entries'
    /\ last_call' = Call("parse", TRUE, 0, {})
    /\ UNCHANGED <<users, changes, returned>>

ParseNext == \E config_text \in ParseTexts : Parse(config_text)

ParseSpec == ParseInit /\ [][ParseNext]_vars

----------------------------------------------------------------------------
(* parse_mixed_identifiers and find_users_by_mixed_identifiers. An input   *)
(* text is a sequence of tokens: fields, with a separator between two      *)
(* fields                                                                  *)

Separators == {",", ";"}

CompoundField == "Amy Segal amy.segal@co.com"

Fields == {"amy", " amy ", "Bob", "amy.segal@co.com", "Amy Segal", CompoundField, ""}

MixedInputs ==
    UNION {{t \in [1..(2 * n - 1) -> Fields \cup Separators] :
               \A i \in 1..(2 * n - 1) : (t[i] \in Separators) <=> (i % 2 = 0)} :
           n \in 1..MaxIdentifiers}

\* id.strip()
Strip(s) == IF s = " amy " THEN "amy" ELSE s

\* ' ' in identifier
HasSpace(identifier) == identifier \in {"Amy Segal", CompoundField}

\* '@' in identifier and '.' in identifier
HasAtAndDot(identifier) == identifier \in {"amy.segal@co.com", CompoundField}

\* identifier.split()
Parts(identifier) ==
    IF identifier = CompoundField THEN <<"Amy", "Segal", "amy.segal@co.com">>
    ELSE IF identifier = "Amy Segal" THEN <<"Amy", "Segal">>
    ELSE <<identifier>>

\* ' '.join(potential_names)
JoinNames(parts) == IF parts = <<"Amy", "Segal">> THEN "Amy Segal" ELSE parts[1]

\* lines 1081-1084: split at the separators, strip, leave the empty strings out
SplitIdentifiers(input_text) ==
    LET fields == SelectSeq(input_text, LAMBDA t : t \notin Separators)
    IN SelectSeq([i \in 1..Len(fields) |-> Strip(fields[i])], LAMBDA id : id # "")

\* lines 1091-1120: what one identifier adds to the three lists
Categorized(identifier) ==
    LET potential_emails == SelectSeq(Parts(identifier), HasAtAndDot)
        potential_names == SelectSeq(Parts(identifier), LAMBDA part : ~HasAtAndDot(part))
        none == [user_ids |-> <<>>, full_names |-> <<>>, emails |-> <<>>]
    IN IF HasSpace(identifier) /\ HasAtAndDot(identifier)
       THEN IF potential_emails # <<>> /\ potential_names # <<>>
            THEN [none EXCEPT !.emails = potential_emails,
                              !.full_names = <<JoinNames(potential_names)>>]
            ELSE [none EXCEPT !.emails = <<identifier>>]
       ELSE IF HasAtAndDot(identifier) THEN [none EXCEPT !.emails = <<identifier>>]
       ELSE IF ~HasSpace(identifier) THEN [none EXCEPT !.user_ids = <<identifier>>]
       ELSE [none EXCEPT !.full_names = <<identifier>>]

parse_mixed_identifiers(input_text) ==
    LET identifiers == SplitIdentifiers(input_text)
        each == [i \in 1..Len(identifiers) |-> Categorized(identifiers[i])]
    IN [user_ids |-> Flatten([i \in 1..Len(each) |-> each[i].user_ids]),
        full_names |-> Flatten([i \in 1..Len(each) |-> each[i].full_names]),
        emails |-> Flatten([i \in 1..Len(each) |-> each[i].emails])]

\* one of the three loops of lines 1143-1164
RECURSIVE FindEach(_, _, _, _)
FindEach(us, identifiers, found_users, processed_identifiers) ==
    IF identifiers = <<>>
    THEN [found_users |-> found_users, processed_identifiers |-> processed_identifiers]
    ELSE LET user == find_user_by_identifier(us, Head(identifiers))
         IN IF Head(identifiers) \notin processed_identifiers /\ user # <<>>
            THEN FindEach(us, Tail(identifiers), found_users \o user,
                          processed_identifiers \cup {Head(identifiers)})
            ELSE FindEach(us, Tail(identifiers), found_users, processed_identifiers)

find_users_by_mixed_identifiers(us, input_text) ==
    LET categorized == parse_mixed_identifiers(input_text)
        ids == FindEach(us, categorized.user_ids, <<>>, {})
        emails == FindEach(us, categorized.emails, ids.found_users,
                           ids.processed_identifiers)
        names == FindEach(us, categorized.full_names, emails.found_users,
                          emails.processed_identifiers)
    IN names.found_users

----------------------------------------------------------------------------
(* Sessions that query: a parsed configuration, at most MaxTextChanges     *)
(* mutations, and calls of query_user_licenses                             *)

QueryIdentifiers == {"amy", "amy.segal@co.com", "bob"}

IdentifierLists == UNION {[1..n -> QueryIdentifiers] : n \in 1..MaxIdentifiers}

QueryInit ==
    /\ users \in TextDirectories
    /\ license_entries \in ParsedConfigurations
    /\ license_config_text = ConfigTextOf(license_entries)
    /\ parsed_entries = license_entries
    /\ changes = <<>>
    /\ returned = None
    /\ last_call = Call("parse", TRUE, 0, {})

\* query_user_licenses(identifiers)
Query(identifiers) == ReadOnly("query_user_licenses", identifiers)

QueryNext ==
    \/ \E user \in UserPool, p \in InputPartitions :
          Len(changes) < MaxTextChanges /\ Add(user, p[1], p[2])
    \/ \E user_id \in UserIds, p \in InputPartitions :
          Len(changes) < MaxTextChanges /\ Remove(user_id, p[1], p[2])
    \/ \E identifiers \in IdentifierLists : Query(identifiers)

QuerySpec == QueryInit /\ [][QueryNext]_vars

----------------------------------------------------------------------------
(* Sessions that resolve mixed identifier inputs against a loaded directory *)

\* the session after fetch_active_users / load_users_from_file, with no
\* configuration parsed yet
ResolveInit ==
    /\ users \in Directories \cup TextDirectories
    /\ license_entries = <<>>
    /\ license_config_text = <<>>
    /\ parsed_entries = <<>>
    /\ changes = <<>>
    /\ returned = None
    /\ last_call = Call("load_users", TRUE, 0, {})

\* find_users_by_mixed_identifiers(input_text)
FindUsers(input_text) ==
    /\ returned' = [op |-> "find_users_by_mixed_identifiers", identifiers |-> input_text,
                    value |-> find_users_by_mixed_identifiers(users, input_text)]
    /\ last_call' = Call("find_users_by_mixed_identifiers", TRUE, 0, {})
    /\ UNCHANGED <<users, license_entries, changes, license_config_text, parsed_entries>>

ResolveNext == \E input_text \in MixedInputs : FindUsers(input_text)

ResolveSpec == ResolveInit /\ [][ResolveNext]_vars

----------------------------------------------------------------------------
(* The menu loop with its options 2 and 9: sessions that can also remove   *)
(* the licenses of all inactive users at once, and that end with Exit      *)

\* a loop over the listed entries that removes once for every user id, category
\* and mode among them
RECURSIVE RemoveEach_once_per_user(_, _, _, _, _)
RemoveEach_once_per_user(us, es, ch, inactive_entries, ok) ==
    IF inactive_entries = <<>> THEN Result(ok, es, ch)
    ELSE LET entry == Head(inactive_entries)
             r == remove_user_license(us, es, ch, entry.user_id, entry.license_type,
                                      entry.assignment_type)
         IN IF \E n \in 2..Len(inactive_entries) :
                  /\ inactive_entries[n].user_id = entry.user_id
                  /\ SamePartition(inactive_entries[n], entry.license_type,
                                   entry.assignment_type)
            THEN RemoveEach_once_per_user(us, es, ch, Tail(inactive_entries), ok)
            ELSE RemoveEach_once_per_user(us, r.license_entries, r.changes,
                                          Tail(inactive_entries), ok /\ r.ok)

\* lines 1370-1371: remove_user_license for each of the listed entries, in their
\* order; ok tells whether every call returned True
RECURSIVE RemoveEach(_, _, _, _, _)
RemoveEach(us, es, ch, inactive_entries, ok) ==
    IF inactive_entries = <<>> THEN Result(ok, es, ch)
    ELSE LET entry == Head(inactive_entries)
             r == remove_user_license(us, es, ch, entry.user_id, entry.license_type,
                                      entry.assignment_type)
         IN RemoveEach(us, r.license_entries, r.changes, Tail(inactive_entries),
                       ok /\ r.ok)

\* the session has not left the menu loop
Running == last_call.op # "exit"

\* menu option 2, "List inactive users with licenses"; remove_inactive is the
\* answer to "Do you want to remove these inactive users? (y/n)"
RemoveInactive(remove_inactive) ==
    LET found == find_inactive_users_with_licenses(users, license_entries)
        inactive_entries == [n \in 1..Len(found) |-> license_entries[found[n]]]
    IN /\ Running
       /\ Len(changes) + Len(inactive_entries) <= MaxChanges
       /\ IF inactive_entries = <<>> \/ remove_inactive # "y"
          THEN /\ last_call' = Call("list_inactive", TRUE, 0, {})
               /\ UNCHANGED <<users, license_entries, changes, license_config_text,
                              parsed_entries, returned>>
          ELSE Commit("remove_inactive",
                      RemoveEach(users, license_entries, changes, inactive_entries, TRUE))

\* menu option 9, "Exit"; save_changes is the answer to "Save changes before
\* exiting? (y/n)", write tells whether open() and write() of the output file
\* get through ("updated") or raise ("none")
Exit(save_changes, write) ==
    /\ Running
    /\ last_call' = Call("exit", TRUE, 0,
                         IF changes # <<>> /\ save_changes = "y" /\ write = "updated"
                         THEN {"polarion_license_updated"} ELSE {})
    /\ UNCHANGED <<users, license_entries, changes, license_config_text,
                   parsed_entries, returned>>

MenuNext ==
    \/ \E user \in UserPool, p \in InputPartitions : Running /\ Add(user, p[1], p[2])
    \/ \E user_id \in UserIds, p \in InputPartitions : Running /\ Remove(user_id, p[1], p[2])
    \/ \E user \in UserPool, old \in InputPartitions, new \in InputPartitions :
          Running /\ Switch(user, old[1], old[2], new[1], new[2])
    \/ \E confirm \in {"y", "n"}, write \in {"none", "updated", "both"} :
          Running /\ ApplyChanges(confirm, write)
    \/ \E remove_inactive \in {"y", "n"} : RemoveInactive(remove_inactive)
    \/ \E save_changes \in {"y", "n"}, write \in {"none", "updated"} :
          Exit(save_changes, write)

MenuSpec == Init /\ [][MenuNext]_vars

----------------------------------------------------------------------------
(* The parser's context, read off the text *)

\* the assignment a line holds, without the '#' of a commented-out line
BodyOf(line) == IF StartsWithHash(line) THEN Uncomment(line) ELSE line

\* the lines before line i that are section or subsection headers
HeadersBefore(text, i) ==
    SelectSeq(SubSeq(text, 1, i - 1),
              LAMBDA l : StartsWithSectionMarker(l)
                         \/ StartsWithSubsectionHeader(l, "Named")
                         \/ StartsWithSubsectionHeader(l, "Concurrent"))

\* the mode of the most recent NAMED USERS / CONCURRENT USERS header before line i
ModeContext(text, i) ==
    LET subs == SelectSeq(HeadersBefore(text, i), LAMBDA l : ~StartsWithSectionMarker(l))
    IN IF subs = <<>> THEN NoName
       ELSE IF StartsWithSubsectionHeader(subs[Len(subs)], "Named") THEN "Named"
       ELSE "Concurrent"

\* the category of the most recent section header before line i
CategoryContext(text, i) ==
    LET secs == SelectSeq(HeadersBefore(text, i), LAMBDA l : StartsWithSectionMarker(l))
    IN IF secs = <<>> THEN NoName ELSE FirstCategoryIn(secs[Len(secs)], 1)

\* the entries the parse made of line i
EntriesAt(es, i) == SelectSeq(es, LAMBDA e : e.line_number = i)

\* the session has just parsed the text it holds
Parsed == last_call.op = "parse" /\ license_entries = parsed_entries

----------------------------------------------------------------------------
(* C21: when the prefix of an assignment line names no mode, the parser    *)
(* takes the mode of the most recent NAMED USERS / CONCURRENT USERS header *)
(* and discards the line when there has been none; a line whose category   *)
(* neither the prefix nor a section header gives is discarded.             *)

C21_ContextOrDiscard ==
    Parsed =>
      \A i \in 1..Len(license_config_text) :
        LET line == BodyOf(license_config_text[i])
            made == EntriesAt(license_entries, i)
        IN IsAssignmentLine(license_config_text[i]) =>
             /\ ~NamesMode(line) =>
                  IF ModeContext(license_config_text, i) = NoName THEN made = <<>>
                  ELSE /\ Len(made) <= 1
                       /\ \A k \in 1..Len(made) :
                            made[k].assignment_type = ModeContext(license_config_text, i)
             /\ (PrefixCategory(line, 1) = NoName
                 /\ CategoryContext(license_config_text, i) = NoName) => made = <<>>

----------------------------------------------------------------------------
(* C26: the category and the mode the parser gives an assignment line      *)
(* depend only on the text of that line and on the section and subsection  *)
(* headers before it: the parse of the headers before the line followed by *)
(* the line alone gives it the same category and mode, or discards it      *)
(* likewise, whatever assignment lines stand before it.                    *)

\* category and mode of the entries made of line i, without line numbers
Classification(es, i) ==
    [k \in 1..Len(EntriesAt(es, i)) |->
        <<EntriesAt(es, i)[k].license_type, EntriesAt(es, i)[k].assignment_type>>]

\* the headers before line i, then line i
WithoutEarlierAssignments(text, i) == HeadersBefore(text, i) \o <<text[i]>>

C26_NoInterferenceBetweenLines ==
    Parsed =>
      \A i \in 1..Len(license_config_text) :
        LET alone == WithoutEarlierAssignments(license_config_text, i)
        IN Classification(license_entries, i)
             = Classification(parse_license_configuration(alone), Len(alone))

----------------------------------------------------------------------------
(* Queries, read off the session *)

Queried == last_call.op = "query_user_licenses"

\* the active entries of a directory user, in the order of the entry list
ActiveEntriesOf(es, user) ==
    SelectSeq(es, LAMBDA e : e.is_active /\ Lower(e.user_id) = Lower(user.user_id))

\* the directory users the identifiers resolve to
ResolvedUsers(us, identifiers) ==
    UNION {Range(find_user_by_identifier(us, identifiers[n])) : n \in 1..Len(identifiers)}

\* the positions of the active entries the users of a set hold
HeldBy(es, resolved) ==
    {i \in 1..Len(es) : /\ es[i].is_active
                        /\ \E u \in resolved : Lower(es[i].user_id) = Lower(u.user_id)}

----------------------------------------------------------------------------
(* C22: query_user_licenses returns one result per identifier, in the      *)
(* order of the input: not_found when the identifier resolves to no        *)
(* directory user, no_license when the user has no active entry, and       *)
(* has_license otherwise, with one rendered string                         *)
(* <mode-lowercase><category>User<index>=<user_id> per active entry of the *)
(* user.                                                                   *)

C22_QueryStatuses ==
    Queried =>
      /\ Len(returned.value) = Len(returned.identifiers)
      /\ \A n \in 1..Len(returned.value) :
           LET r == returned.value[n]
               user == find_user_by_identifier(users, returned.identifiers[n])
               active == IF user = <<>> THEN <<>>
                         ELSE ActiveEntriesOf(license_entries, user[1])
           IN /\ r.identifier = returned.identifiers[n]
              /\ IF user = <<>> THEN r.status = "not_found"
                 ELSE IF active = <<>> THEN r.status = "no_license"
                 ELSE /\ r.status = "has_license"
                      /\ r.licenses =
                           [k \in 1..Len(active) |->
                              <<Lower(active[k].assignment_type), active[k].license_type,
                                "User", ToString(active[k].index), "=", active[k].user_id>>]

\* a query for an unknown identifier and then for a user with two active
\* entries has answered not_found and has_license with two strings, the first
\* of them namedALMUser1=amy
C22_Witness ==
    /\ Queried
    /\ Len(returned.value) = 2
    /\ returned.value[1].status = "not_found"
    /\ returned.value[2].status = "has_license"
    /\ Len(returned.value[2].licenses) = 2
    /\ returned.value[2].licenses[1] = <<"named", "ALM", "User", "1", "=", "amy">>

----------------------------------------------------------------------------
(* C23: in a has_license result the system-wide count of each key          *)
(* <mode><category> is the number of active entries of that key, and the   *)
(* count for the queried set is the number of active entries of that key   *)
(* held by the set of users the identifiers resolve to, so no count of the *)
(* queried set exceeds the system-wide count, also when several            *)
(* identifiers resolve to the same user.                                   *)

C23_AggregateCounts ==
    Queried =>
      \A n \in 1..Len(returned.value) :
        returned.value[n].status = "has_license" =>
          LET overall == returned.value[n].overall_stats
              queried == returned.value[n].queried_users_stats
              held == HeldBy(license_entries, ResolvedUsers(users, returned.identifiers))
          IN /\ overall = LicenseStats(license_entries, 1..Len(license_entries))
             /\ queried = LicenseStats(license_entries, held)
             /\ \A k \in DOMAIN queried : k \in DOMAIN overall /\ queried[k] <= overall[k]

----------------------------------------------------------------------------
(* C30: query_user_licenses never answers no_active_license: a resolved    *)
(* user whose list in the table is not empty gets has_license, as the      *)
(* lists of the table hold active entries only.                            *)

C30_NeverNoActiveLicense ==
    Queried =>
      \A n \in 1..Len(returned.value) :
        LET user == find_user_by_identifier(users, returned.identifiers[n])
        IN /\ returned.value[n].status # "no_active_license"
           /\ (user # <<>>
               /\ TableGet(build_combined_user_license_table(users, license_entries),
                           Lower(user[1].user_id)) # <<>>)
              => returned.value[n].status = "has_license"

\* a user with a removed license and an active one has been queried and the
\* answer is has_license; another query found a user with a removed license only
C30_Witness ==
    /\ Queried
    /\ \E n \in 1..Len(returned.value) :
         /\ returned.value[n].status = "has_license"
         /\ \E i \in 1..Len(license_entries) :
              /\ ~license_entries[i].is_active
              /\ Lower(license_entries[i].user_id) = Lower(returned.value[n].user[1].user_id)

----------------------------------------------------------------------------
(* C24: find_users_by_mixed_identifiers returns the users the input        *)
(* matches in the order user ids, then emails, then names, and no          *)
(* directory user twice, also when the input names a user by id and by     *)
(* email or name.                                                          *)

Resolved == last_call.op = "find_users_by_mixed_identifiers"

\* a sequence without the later occurrences of its elements
RECURSIVE WithoutDuplicates(_)
WithoutDuplicates(seq) ==
    IF seq = <<>> THEN <<>>
    ELSE LET front == WithoutDuplicates(SubSeq(seq, 1, Len(seq) - 1))
         IN IF seq[Len(seq)] \in Range(front) THEN front ELSE Append(front, seq[Len(seq)])

\* the users the identifiers of a list match, in the order of the list
Matched(us, identifiers) ==
    Flatten([n \in 1..Len(identifiers) |-> find_user_by_identifier(us, identifiers[n])])

C24_ResolvedOnceInOrder ==
    Resolved =>
      LET categorized == parse_mixed_identifiers(returned.identifiers)
      IN returned.value =
           WithoutDuplicates(Matched(users, categorized.user_ids \o categorized.emails
                                            \o categorized.full_names))

----------------------------------------------------------------------------
(* C25: when the active entries of the parsed configuration have pairwise  *)
(* distinct slot indices within each (category, mode) partition, then      *)
(* after any sequence of add, remove and switch no two active entries of   *)
(* the same partition share a slot index.                                  *)

DistinctSlots(es) ==
    \A i, j \in 1..Len(es) :
        (/\ i # j
         /\ es[i].is_active /\ es[j].is_active
         /\ es[i].license_type = es[j].license_type
         /\ es[i].assignment_type = es[j].assignment_type)
        => es[i].index # es[j].index

C25_DistinctSlotsKept == DistinctSlots(parsed_entries) => DistinctSlots(license_entries)

\* an add has just appended an entry to a partition that holds two other active
\* entries of the parsed configuration, whose slots were distinct
C25_Witness ==
    /\ DistinctSlots(parsed_entries)
    /\ last_call.op = "add" /\ last_call.ok
    /\ Len(license_entries) = Len(parsed_entries) + 1
    /\ Cardinality({i \in 1..Len(license_entries) :
                       /\ license_entries[i].is_active
                       /\ SamePartition(license_entries[i], Last(license_entries).license_type,
                                        Last(license_entries).assignment_type)}) = 3

----------------------------------------------------------------------------
(* C27: every entry of the entry list appears at most once as an           *)
(* assignment line, active or commented, in the serialized text, so        *)
(* parsing the serialized text never yields more entries than the entry    *)
(* list holds, also for lines that were commented out and for assignment   *)
(* lines before the first section header.                                  *)

\* the positions of the serialized text that hold the assignment of entry e,
\* as an active line or a commented one
LinesOf(out, e) ==
    {p \in 1..Len(out) :
        /\ IsAssignmentLine(out[p])
        /\ \E line \in {BodyOf(out[p])} :
             /\ SubSeq(line, 1, 5) = SubSeq(AssignmentLine(e.assignment_type, e.license_type,
                                                          e.index, e.user_id), 1, 5)
             /\ line[6] = e.user_id}

\* the entries of the list that hold the same assignment as entry e
SameAssignment(es, e) ==
    {j \in 1..Len(es) : /\ SamePartition(es[j], e.license_type, e.assignment_type)
                        /\ es[j].index = e.index
                        /\ es[j].user_id = e.user_id}

\* no assignment has more lines in the serialized text than entries in the list
C27_EachEntryAtMostOnce ==
    Serialized =>
      /\ \A i \in 1..Len(license_entries) :
           Cardinality(LinesOf(returned.value, license_entries[i]))
             <= Cardinality(SameAssignment(license_entries, license_entries[i]))
      /\ Len(parse_license_configuration(returned.value)) <= Len(license_entries)

----------------------------------------------------------------------------
(* C28: in the interactive session the updated configuration text is       *)
(* written to a file only when the change log is not empty and validate    *)
(* reports no problem at that moment, on every path that writes the file,  *)
(* saving on exit included.                                                *)

----------------------------------------------------------------------------
(* C29: after the 'remove inactive users' action every call of remove has  *)
(* succeeded, find_inactive_users_with_licenses returns the empty list,    *)
(* and the change log has grown by exactly one 'remove' record per stale   *)
(* entry, also when several stale entries share user id, category and mode. *)

C29_RemoveInactiveRemovesAll ==
    [][last_call'.op = "remove_inactive"
       => LET stale == find_inactive_users_with_licenses(users, license_entries)
          IN /\ last_call'.ok
             /\ find_inactive_users_with_licenses(users, license_entries') = <<>>
             /\ IsPrefix(changes, changes')
             /\ Len(changes') = Len(changes) + Len(stale)
             /\ \A n \in (Len(changes) + 1)..Len(changes') : changes'[n].action = "remove"
             /\ \A n \in 1..Len(stale) : ~license_entries'[stale[n]].is_active]_vars

\* the action has removed two stale entries of the same user id, category and mode
C29_Witness ==
    /\ last_call.op = "remove_inactive"
    /\ last_call.logged = 2
    /\ Len(changes) = 2
    /\ changes[1].user_id = changes[2].user_id
    /\ changes[1].old_license = changes[2].old_license
    /\ changes[1].line_removed # changes[2].line_removed

====
